---- MODULE Spec2Model ----
(***************************************************************************)
(* zstdpool-syncpool: sync.Pool wrappers for zstd encoders and decoders.   *)
(*                                                                         *)
(* The state is the set of wrappers the pools' New functions have built,   *)
(* each with its embedded codec handle, the idle entries of each           *)
(* sync.Pool, and the references callers hold.  Callers are goroutines of  *)
(* client code and are interchangeable: the model counts, per wrapper, how *)
(* many of them hold it between an acquire and a release (holders), and    *)
(* whether a reference survives a release in some caller's variable        *)
(* (stale).  One action is one call of the package's API, of the embedded  *)
(* handle's API, of sync.Pool, or one step of the garbage collector.       *)
(***************************************************************************)
EXTENDS Naturals, FiniteSets

\* Wrappers that the pools' New functions may build in one run.
MaxWrappers == 2
\* Idle entries one sync.Pool keeps; a Put needs room.
MaxIdle == 2
\* Callers that may hold references to one wrapper at a time.
MaxHolders == 2
\* Closes of one handle that are counted; further ones are not told apart.
MaxTeardowns == 2

Wrappers == 1..MaxWrappers

\* The sync.Pools of a run.  An encoder pool and a decoder pool share no
\* state (their wrappers are of different types), so a run has pools of one
\* kind, poolKind, and the facade under study wraps Pool.  OtherPool is a
\* second pool of that kind, which a caller got from NewDecoderPool and uses
\* as a sync.Pool.
Pool == "P"
OtherPool == "Q"
Pools == {Pool, OtherPool}
NoPool == "-"

\* io.Reader / io.Writer values callers pass; Nil is the nil interface.
Nil == "nil"
Targets == {"X", "Y"}

VARIABLES
    poolKind,   \* "enc" (NewEncoderPool) or "dec" (NewDecoderPool)
    optsOk,     \* zstd accepts the options given to the pool's constructor
    pools,      \* the sync.Pools the run has made, a subset of Pools
    handle,     \* [Wrappers -> {"none","absent","open","closed"}]: the embedded *zstd.Encoder / *zstd.Decoder
    target,     \* [Wrappers -> Targets \cup {Nil}]: the reader / writer the handle is bound to
    pool,       \* [Wrappers -> Pools \cup {NoPool}]: DecoderWrapper.pool
    builtBy,    \* [Wrappers -> Pools \cup {NoPool}]: the sync.Pool whose New built the wrapper
    finalizer,  \* [Wrappers -> {"none","armed","fired"}]: runtime.SetFinalizer
    idle,       \* [Pools -> [Wrappers -> Nat]]: the entries of each sync.Pool (a bag)
    holders,    \* [Wrappers -> 0..MaxHolders]: callers between acquire and release
    stale,      \* [Wrappers -> BOOLEAN]: a caller kept the reference after releasing
    last,       \* the last call and its outcome
    misused,    \* a caller used a wrapper it had already released
    bypassed,   \* a caller closed a decoder's handle directly (w.Decoder.Close())
    rawPut,     \* a caller released through sync.Pool.Put itself
    teardowns   \* [Wrappers -> 0..MaxTeardowns]: times the handle went from open to closed

vars == <<poolKind, optsOk, pools, handle, target, pool, builtBy, finalizer,
          idle, holders, stale, last, misused, bypassed, rawPut, teardowns>>

config == <<poolKind, optsOk, pools>>
wrapperVars == <<handle, target, pool, builtBy, finalizer>>

----------------------------------------------------------------------------
(* Helpers *)

RECURSIVE SumTo(_, _)
SumTo(f, n) == IF n = 0 THEN 0 ELSE f[n] + SumTo(f, n - 1)

\* Number of entries of sync.Pool p.
PoolSize(p) == SumTo(idle[p], MaxWrappers)

\* The wrapper a call of New builds next: identities are never reused.
Fresh(w) == handle[w] = "none" /\ \A v \in Wrappers : v < w => handle[v] # "none"

\* The garbage collector's view: something still refers to the wrapper.
Reachable(w) ==
    \/ holders[w] > 0
    \/ stale[w]
    \/ \E p \in Pools : idle[p][w] > 0

\* The references through which a caller can call a method of wrapper w.
Refs(w) == (IF holders[w] > 0 THEN {"held"} ELSE {}) \cup
           (IF stale[w] THEN {"stale"} ELSE {})

\* The last call of the package's API, or use of a handle, and how it ended.
NoCall == [op |-> "none", w |-> 0, arg |-> Nil, res |-> "-"]
Call(op, w, arg, res) == [op |-> op, w |-> w, arg |-> arg, res |-> res]

----------------------------------------------------------------------------
(* The codec engine, github.com/klauspost/compress/zstd, as the package    *)
(* calls it.                                                               *)

\* zstd.NewWriter(nil, options...) / zstd.NewReader(nil, options...): the
\* handle, or nil when an option is rejected (the error is discarded).
NewHandle == IF optsOk THEN "open" ELSE "absent"

\* (*zstd.Decoder).Reset: fails only on a closed decoder; a call through a
\* nil *zstd.Decoder dereferences nil.
DecoderReset(h) ==
    IF h = "absent" THEN "nilderef"
    ELSE IF h = "closed" THEN "err"
    ELSE "ok"

\* (*zstd.Encoder).Reset returns nothing and re-initialises the encoder,
\* also after Close; a call through a nil *zstd.Encoder dereferences nil.
EncoderReset(h) == IF h = "absent" THEN "nilderef" ELSE "ok"

\* (*zstd.Decoder).Close and (*zstd.Encoder).Close: the handle is closed; a
\* call through a nil handle dereferences nil.
HandleAfterClose(h) == IF h = "absent" THEN "absent" ELSE "closed"

\* The count of a handle's teardowns after a Close that finds it in state h:
\* Close on a closed handle returns at once, and a nil handle has nothing to
\* tear down.
TeardownsAfterClose(n, h) ==
    IF h = "open" /\ n < MaxTeardowns THEN n + 1 ELSE n

\* Read from a decoder / Write to an encoder: the data comes from, or goes
\* to, the handle's current target.
UseOutcome(h, t) ==
    IF h = "absent" THEN "nilderef"
    ELSE IF h = "closed" \/ t = Nil THEN "err"
    ELSE t

----------------------------------------------------------------------------
(* sync.Pool *)

\* sync.Pool.Put(w).
PoolPut(p, w) == [idle EXCEPT ![p][w] = @ + 1]

\* sync.Pool.Get() handing out the idle entry w.
PoolTake(p, w) == [idle EXCEPT ![p][w] = @ - 1]

\* sync.Pool.Get() yields w: an arbitrary idle entry, or, as Get may treat
\* the pool as empty, the wrapper New builds.
PoolGetYields(p, w) == idle[p][w] > 0 \/ Fresh(w)

\* The pool's entries after that Get.
PoolAfterGet(p, w) == IF Fresh(w) THEN idle ELSE PoolTake(p, w)

----------------------------------------------------------------------------
(* Callers' references *)

\* A call that leaves the caller's reference as it is.
Touch(by) ==
    /\ misused' = (misused \/ by = "stale")
    /\ UNCHANGED <<holders, stale>>

\* A release: the caller stops holding w; the variable it released from, or
\* the adapter it made of w, still refers to w until it is dropped.
Release(w, by) ==
    /\ misused' = (misused \/ by = "stale")
    /\ holders' = IF by = "held" THEN [holders EXCEPT ![w] = @ - 1] ELSE holders
    /\ stale' = [stale EXCEPT ![w] = TRUE]

\* An acquire: one more caller holds w.
Acquire(w) == holders' = [holders EXCEPT ![w] = @ + 1]

----------------------------------------------------------------------------
(* NewEncoderPool / NewDecoderPool: the pool's New function *)

\* The handle of the wrapper sync.Pool.Get yields, before any Reset.
HandleOfGot(w) == IF Fresh(w) THEN NewHandle ELSE handle[w]

\* Mutant: every wrapper refers back to one pool, the facade's, whichever
\* pool builds it.
BackRef_Facade(p) == IF poolKind = "dec" THEN Pool ELSE NoPool

\* NewDecoderPool's New sets the back-reference to the pool itself;
\* an EncoderWrapper has none.
BackRef(p) == IF poolKind = "dec" THEN p ELSE NoPool

\* Mutant: New sets the finalizer only when zstd returned a handle.
Built_NoFinalizerOnFailure(p, w) ==
    IF Fresh(w)
    THEN /\ pool' = [pool EXCEPT ![w] = BackRef(p)]
         /\ builtBy' = [builtBy EXCEPT ![w] = p]
         /\ finalizer' = [finalizer EXCEPT ![w] = IF optsOk THEN "armed" ELSE "none"]
    ELSE UNCHANGED <<pool, builtBy, finalizer>>

\* New, when sync.Pool.Get yields a wrapper it has just built: the wrapper
\* with its finalizer set.  An idle entry is left as it was.
Built(p, w) ==
    IF Fresh(w)
    THEN /\ pool' = [pool EXCEPT ![w] = BackRef(p)]
         /\ builtBy' = [builtBy EXCEPT ![w] = p]
         /\ finalizer' = [finalizer EXCEPT ![w] = "armed"]
    ELSE UNCHANGED <<pool, builtBy, finalizer>>

\* No wrapper is built before the first Get: New runs on demand.
NothingBuilt ==
    /\ handle = [w \in Wrappers |-> "none"]
    /\ target = [w \in Wrappers |-> Nil]
    /\ pool = [w \in Wrappers |-> NoPool]
    /\ builtBy = [w \in Wrappers |-> NoPool]
    /\ finalizer = [w \in Wrappers |-> "none"]
    /\ idle = [p \in Pools |-> [w \in Wrappers |-> 0]]
    /\ holders = [w \in Wrappers |-> 0]
    /\ stale = [w \in Wrappers |-> FALSE]
    /\ last = NoCall
    /\ misused = FALSE
    /\ bypassed = FALSE
    /\ rawPut = FALSE
    /\ teardowns = [w \in Wrappers |-> 0]

\* NewEncoderPoolWrapper(options...) or NewDecoderPoolWrapper(options...):
\* one facade and its pool.
Init ==
    /\ poolKind \in {"enc", "dec"}
    /\ optsOk \in BOOLEAN
    /\ pools = {Pool}
    /\ NothingBuilt

\* NewDecoderPoolWrapper(options...) and NewDecoderPool(options...): two
\* decoder pools side by side.
DecoderPoolsInit ==
    /\ poolKind = "dec"
    /\ optsOk \in BOOLEAN
    /\ pools = Pools
    /\ NothingBuilt

----------------------------------------------------------------------------
(* DecoderWrapper, DecoderPoolWrapper *)

\* Mutant: Get hands the wrapper out without resetting it.
TargetAfterGet_NoReset(old, r) == old

\* The facades' Get resets the wrapper it got against the caller's target:
\* dw.Reset(r) / ew.Reset(w).
TargetAfterGet(old, r) == r

\* Mutant: Get hands the error back instead of panicking.
GetResult_ReturnsErr(err) ==
    IF err = "ok" THEN "ok" ELSE IF err = "err" THEN "err" ELSE "nilderef"

\* DecoderPoolWrapper.Get: panic(err) when Reset returns an error.
GetResult(err) ==
    IF err = "ok" THEN "ok" ELSE IF err = "err" THEN "panic" ELSE "nilderef"

\* DecoderPoolWrapper.Get(r): d.pool.Get(), then dw.Reset(r).
DecoderPoolWrapper_Get(w, r) ==
    LET h == HandleOfGot(w)
        err == DecoderReset(h)
    IN  /\ poolKind = "dec"
        /\ PoolGetYields(Pool, w)
        /\ err = "ok" => holders[w] < MaxHolders
        /\ idle' = PoolAfterGet(Pool, w)
        /\ Built(Pool, w)
        /\ handle' = [handle EXCEPT ![w] = h]
        /\ target' = IF err = "ok" THEN [target EXCEPT ![w] = TargetAfterGet(@, r)]
                                ELSE target
        /\ IF err = "ok" THEN Acquire(w) ELSE UNCHANGED holders
        /\ last' = Call("DecGet", w, r, GetResult(err))
        /\ UNCHANGED <<config, teardowns, stale, misused, bypassed, rawPut>>

\* Mutant: the wrapper is put back whatever Reset returned.
ReturnsToPool_Always(err) == err # "nilderef"

\* DecoderPoolWrapper.Put and DecoderWrapper.Close: `if err == nil { Put }`.
ReturnsToPool(err) == err = "ok"

\* Mutant: the release path also closes the embedded decoder.
HandleAfterRelease_Closes(h) == HandleAfterClose(h)

\* The release paths call w.Decoder.Reset(nil), never w.Decoder.Close():
\* the handle stays as it is.
HandleAfterRelease(h) == h

\* Mutant: the release path does not reset the source.
SourceAfterRelease_Keeps(t) == t

\* Reset(nil): the handle's source after a release whose reset succeeded.
SourceAfterRelease(t) == Nil

\* Mutant: the wrapper is put into the pool twice.
PoolAfterRelease_PutsTwice(p, w, err) ==
    IF ReturnsToPool(err) THEN [idle EXCEPT ![p][w] = @ + 2] ELSE idle

\* `if err == nil { pool.Put(w) }`: the pool's entries after a release.
PoolAfterRelease(p, w, err) == IF ReturnsToPool(err) THEN PoolPut(p, w) ELSE idle

\* The body shared by the decoder's release paths: Reset(nil), then Put
\* into pool p when the reset returned no error.
DecoderRelease(op, p, w, by) ==
    LET err == DecoderReset(handle[w])
    IN  /\ ReturnsToPool(err) => PoolSize(p) < MaxIdle
        /\ handle' = [handle EXCEPT ![w] = HandleAfterRelease(@)]
        /\ target' = IF err = "ok" THEN [target EXCEPT ![w] = SourceAfterRelease(@)]
                                ELSE target
        /\ idle' = PoolAfterRelease(p, w, err)
        /\ IF err = "nilderef" THEN Touch(by) ELSE Release(w, by)
        /\ last' = Call(op, w, Nil, IF err = "nilderef" THEN "nilderef" ELSE "ok")
        /\ UNCHANGED <<config, teardowns, pool, builtBy, finalizer, bypassed, rawPut>>

\* DecoderPoolWrapper.Put(w).
DecoderPoolWrapper_Put(w, by) ==
    /\ poolKind = "dec"
    /\ by \in Refs(w)
    /\ DecoderRelease("DecPut", Pool, w, by)

\* DecoderWrapper.Close().
DecoderWrapper_Close(w, by) ==
    /\ poolKind = "dec"
    /\ by \in Refs(w)
    /\ DecoderRelease("DecClose", pool[w], w, by)

\* Mutant: the adapter's Close is the one of the decoder's own
\* io.ReadCloser, which closes the decoder.
DecoderReadCloser_Close_Terminal(w, by) ==
    /\ poolKind = "dec"
    /\ by \in Refs(w)
    /\ handle' = [handle EXCEPT ![w] = HandleAfterClose(@)]
    /\ Release(w, by)
    /\ last' = Call("StreamClose", w, Nil,
                    IF handle[w] = "absent" THEN "nilderef" ELSE "ok")
    /\ teardowns' = [teardowns EXCEPT ![w] = TeardownsAfterClose(@, handle[w])]
    /\ UNCHANGED <<config, target, pool, builtBy, finalizer, idle, bypassed, rawPut>>

\* DecoderWrapper.IOReadCloser() and, on the adapter it returns,
\* decoderReadCloser.Close(): w.dw.Close(), then return nil.  The adapter
\* is one more reference to the wrapper of the caller that made it.
DecoderReadCloser_Close(w, by) ==
    /\ poolKind = "dec"
    /\ by \in Refs(w)
    /\ DecoderRelease("StreamClose", pool[w], w, by)

----------------------------------------------------------------------------
(* EncoderPoolWrapper *)

\* EncoderPoolWrapper.Get(w): e.pool.Get(), then ew.Reset(w).
EncoderPoolWrapper_Get(w, t) ==
    LET h == HandleOfGot(w)
        res == EncoderReset(h)
    IN  /\ poolKind = "enc"
        /\ PoolGetYields(Pool, w)
        /\ res = "ok" => holders[w] < MaxHolders
        /\ idle' = PoolAfterGet(Pool, w)
        /\ Built(Pool, w)
        /\ handle' = [handle EXCEPT ![w] = IF res = "ok" THEN "open" ELSE h]
        /\ target' = IF res = "ok" THEN [target EXCEPT ![w] = TargetAfterGet(@, t)]
                                ELSE target
        /\ IF res = "ok" THEN Acquire(w) ELSE UNCHANGED holders
        /\ last' = Call("EncGet", w, t, res)
        /\ UNCHANGED <<config, teardowns, stale, misused, bypassed, rawPut>>

\* Mutant: Put pools the wrapper without resetting it.
SinkAfterPut_Keeps(t) == t

\* w.Reset(nil) in EncoderPoolWrapper.Put: the sink of the wrapper it pools.
SinkAfterPut(t) == Nil

\* EncoderPoolWrapper.Put(w): w.Reset(nil), then e.pool.Put(w).
EncoderPoolWrapper_Put(w, by) ==
    LET res == EncoderReset(handle[w])
    IN  /\ poolKind = "enc"
        /\ by \in Refs(w)
        /\ res = "ok" => PoolSize(Pool) < MaxIdle
        /\ handle' = [handle EXCEPT ![w] = IF res = "ok" THEN "open" ELSE @]
        /\ target' = IF res = "ok" THEN [target EXCEPT ![w] = SinkAfterPut(@)]
                                ELSE target
        /\ idle' = IF res = "ok" THEN PoolPut(Pool, w) ELSE idle
        /\ IF res = "ok" THEN Release(w, by) ELSE Touch(by)
        /\ last' = Call("EncPut", w, Nil, res)
        /\ UNCHANGED <<config, teardowns, pool, builtBy, finalizer, bypassed, rawPut>>

----------------------------------------------------------------------------
(* The sync.Pool that NewEncoderPool / NewDecoderPool return, used directly *)

\* p.Get().(*DecoderWrapper) / p.Get().(*EncoderWrapper): no Reset.
Pool_Get(p, w) ==
    /\ PoolGetYields(p, w)
    /\ holders[w] < MaxHolders
    /\ idle' = PoolAfterGet(p, w)
    /\ Built(p, w)
    /\ handle' = [handle EXCEPT ![w] = HandleOfGot(w)]
    /\ Acquire(w)
    /\ last' = NoCall
    /\ UNCHANGED <<config, teardowns, target, stale, misused, bypassed, rawPut>>

\* p.Put(w): no Reset.
Pool_Put(p, w, by) ==
    /\ by \in Refs(w)
    /\ PoolSize(p) < MaxIdle
    /\ idle' = PoolPut(p, w)
    /\ Release(w, by)
    /\ rawPut' = TRUE
    /\ last' = NoCall
    /\ UNCHANGED <<config, teardowns, wrapperVars, bypassed>>

\* sync.Pool drops an idle entry, as it may at any time.
Pool_Drop(p, w) ==
    /\ idle[p][w] > 0
    /\ idle' = PoolTake(p, w)
    /\ last' = NoCall
    /\ UNCHANGED <<config, teardowns, wrapperVars, holders, stale, misused,
                   bypassed, rawPut>>

----------------------------------------------------------------------------
(* The embedded handle's methods, which a wrapper promotes to its callers *)

\* w.Reset(t) on the embedded *zstd.Decoder or *zstd.Encoder.
Handle_Reset(w, t, by) ==
    LET res == IF poolKind = "dec" THEN DecoderReset(handle[w])
                                   ELSE EncoderReset(handle[w])
    IN  /\ by \in Refs(w)
        /\ handle' = [handle EXCEPT ![w] = IF res = "ok" THEN "open" ELSE @]
        /\ target' = IF res = "ok" THEN [target EXCEPT ![w] = t] ELSE target
        /\ Touch(by)
        /\ last' = NoCall
        /\ UNCHANGED <<config, teardowns, pool, builtBy, finalizer, idle, bypassed, rawPut>>

\* w.Read(...) on a decoder, w.Write(...) on an encoder.
Handle_Use(w, by) ==
    LET res == UseOutcome(handle[w], target[w])
    IN  /\ by \in Refs(w)
        /\ Touch(by)
        /\ last' = Call("Use", w, Nil, res)
        /\ UNCHANGED <<config, teardowns, handle, target, pool, builtBy, finalizer, idle,
                       bypassed, rawPut>>

\* w.Decoder.Close() on a decoder (DecoderWrapper.Close hides it), w.Close()
\* on an encoder.
Handle_Close(w, by) ==
    /\ by \in Refs(w)
    /\ handle' = [handle EXCEPT ![w] = HandleAfterClose(@)]
    /\ teardowns' = [teardowns EXCEPT ![w] = TeardownsAfterClose(@, handle[w])]
    /\ bypassed' = (bypassed \/ poolKind = "dec")
    /\ Touch(by)
    /\ last' = NoCall
    /\ UNCHANGED <<config, target, pool, builtBy, finalizer, idle, rawPut>>

----------------------------------------------------------------------------
(* Callers dropping references, and the garbage collector *)

\* A caller forgets a wrapper it holds without releasing it.
Abandon(w) ==
    /\ holders[w] > 0
    /\ holders' = [holders EXCEPT ![w] = @ - 1]
    /\ last' = NoCall
    /\ UNCHANGED <<config, teardowns, wrapperVars, idle, stale, misused, bypassed, rawPut>>

\* The references left behind by releases go out of scope.
DropStale(w) ==
    /\ stale[w]
    /\ stale' = [stale EXCEPT ![w] = FALSE]
    /\ last' = NoCall
    /\ UNCHANGED <<config, teardowns, wrapperVars, idle, holders, misused, bypassed, rawPut>>

\* Mutant: the finalizer leaves the handle open.
FinalizerEffect_Nothing(h) == h

\* The finalizer NewEncoderPool sets: ew.Encoder.Close(); the one
\* NewDecoderPool sets: dw.Decoder.Close().
FinalizerEffect(h) == HandleAfterClose(h)

\* Mutant: the finalizer of the earlier snapshot, which calls the wrapper's
\* own Close: Reset(nil), then Put into the owning pool on success.
Finalize_Releases(w) ==
    LET err == DecoderReset(handle[w])
    IN  /\ finalizer[w] = "armed"
        /\ ~Reachable(w)
        /\ finalizer' = [finalizer EXCEPT ![w] = "fired"]
        /\ IF poolKind = "dec" /\ err = "ok" /\ PoolSize(Pool) < MaxIdle
           THEN /\ target' = [target EXCEPT ![w] = Nil]
                /\ idle' = PoolPut(Pool, w)
                /\ UNCHANGED <<handle, teardowns>>
           ELSE /\ handle' = [handle EXCEPT ![w] = FinalizerEffect(@)]
                /\ teardowns' = [teardowns EXCEPT
                                    ![w] = TeardownsAfterClose(@, handle[w])]
                /\ UNCHANGED <<target, idle>>
        /\ last' = Call("Finalize", w, Nil,
                        IF handle[w] = "absent" THEN "nilderef" ELSE "ok")
        /\ UNCHANGED <<config, pool, builtBy, holders, stale, misused, bypassed, rawPut>>

\* Mutant: the finalizer stays set after it has run, as if it set itself
\* again, and runs again at the next collection.
Finalize_Rearms(w) ==
    /\ finalizer[w] = "armed"
    /\ ~Reachable(w)
    /\ handle' = [handle EXCEPT ![w] = FinalizerEffect(@)]
    /\ teardowns' = [teardowns EXCEPT ![w] = TeardownsAfterClose(@, handle[w])]
    /\ last' = Call("Finalize", w, Nil,
                    IF handle[w] = "absent" THEN "nilderef" ELSE "ok")
    /\ UNCHANGED <<config, target, pool, builtBy, finalizer, idle, holders, stale,
                   misused, bypassed, rawPut>>

\* The garbage collector finds w unreachable and runs its finalizer, once.
Finalize(w) ==
    /\ finalizer[w] = "armed"
    /\ ~Reachable(w)
    /\ finalizer' = [finalizer EXCEPT ![w] = "fired"]
    /\ handle' = [handle EXCEPT ![w] = FinalizerEffect(@)]
    /\ teardowns' = [teardowns EXCEPT ![w] = TeardownsAfterClose(@, handle[w])]
    /\ last' = Call("Finalize", w, Nil,
                    IF handle[w] = "absent" THEN "nilderef" ELSE "ok")
    /\ UNCHANGED <<config, target, pool, builtBy, idle, holders, stale,
                   misused, bypassed, rawPut>>

----------------------------------------------------------------------------

Next ==
    \/ \E w \in Wrappers, r \in Targets \cup {Nil} : DecoderPoolWrapper_Get(w, r)
    \/ \E w \in Wrappers, by \in {"held", "stale"} : DecoderPoolWrapper_Put(w, by)
    \/ \E w \in Wrappers, by \in {"held", "stale"} : DecoderWrapper_Close(w, by)
    \/ \E w \in Wrappers, by \in {"held", "stale"} : DecoderReadCloser_Close(w, by)
    \/ \E w \in Wrappers, t \in Targets \cup {Nil} : EncoderPoolWrapper_Get(w, t)
    \/ \E w \in Wrappers, by \in {"held", "stale"} : EncoderPoolWrapper_Put(w, by)
    \/ \E p \in pools, w \in Wrappers : Pool_Get(p, w)
    \/ \E p \in pools, w \in Wrappers, by \in {"held", "stale"} : Pool_Put(p, w, by)
    \/ \E p \in pools, w \in Wrappers : Pool_Drop(p, w)
    \/ \E w \in Wrappers, t \in Targets \cup {Nil}, by \in {"held", "stale"} :
          Handle_Reset(w, t, by)
    \/ \E w \in Wrappers, by \in {"held", "stale"} : Handle_Use(w, by)
    \/ \E w \in Wrappers, by \in {"held", "stale"} : Handle_Close(w, by)
    \/ \E w \in Wrappers : Abandon(w)
    \/ \E w \in Wrappers : DropStale(w)
    \/ \E w \in Wrappers : Finalize(w)

Spec == Init /\ [][Next]_vars

\* The garbage collector eventually runs the finalizer of a wrapper that
\* stays unreachable.
FairSpec == Spec /\ \A w \in Wrappers : WF_vars(Finalize(w))

\* The operations that build, hand out, take back, close and collect
\* decoders, for runs with two decoder pools.  Which pool a wrapper goes to
\* does not depend on the source it reads from: these runs read from "X"
\* only and leave out the handle's own Reset and Read.
DecoderNext ==
    \/ \E w \in Wrappers : DecoderPoolWrapper_Get(w, "X")
    \/ \E w \in Wrappers, by \in {"held", "stale"} : DecoderPoolWrapper_Put(w, by)
    \/ \E w \in Wrappers, by \in {"held", "stale"} : DecoderWrapper_Close(w, by)
    \/ \E w \in Wrappers, by \in {"held", "stale"} : DecoderReadCloser_Close(w, by)
    \/ \E p \in pools, w \in Wrappers : Pool_Get(p, w)
    \/ \E p \in pools, w \in Wrappers, by \in {"held", "stale"} : Pool_Put(p, w, by)
    \/ \E p \in pools, w \in Wrappers : Pool_Drop(p, w)
    \/ \E w \in Wrappers, by \in {"held", "stale"} : Handle_Close(w, by)
    \/ \E w \in Wrappers : Abandon(w)
    \/ \E w \in Wrappers : DropStale(w)
    \/ \E w \in Wrappers : Finalize(w)

\* Two decoder pools, the facade's and one used as a sync.Pool.
DecoderPoolsSpec == DecoderPoolsInit /\ [][DecoderNext]_vars

TypeOK ==
    /\ poolKind \in {"enc", "dec"}
    /\ optsOk \in BOOLEAN
    /\ pools \in SUBSET Pools
    /\ handle \in [Wrappers -> {"none", "absent", "open", "closed"}]
    /\ target \in [Wrappers -> Targets \cup {Nil}]
    /\ pool \in [Wrappers -> Pools \cup {NoPool}]
    /\ builtBy \in [Wrappers -> Pools \cup {NoPool}]
    /\ finalizer \in [Wrappers -> {"none", "armed", "fired"}]
    /\ idle \in [Pools -> [Wrappers -> 0..MaxIdle]]
    /\ holders \in [Wrappers -> 0..MaxHolders]
    /\ stale \in [Wrappers -> BOOLEAN]
    /\ last \in [op : {"none", "DecGet", "DecPut", "DecClose", "StreamClose",
                       "EncGet", "EncPut", "Use", "Finalize"},
                 w : Wrappers \cup {0},
                 arg : Targets \cup {Nil},
                 res : Targets \cup {"-", "ok", "err", "panic", "nilderef"}]
    /\ misused \in BOOLEAN /\ bypassed \in BOOLEAN /\ rawPut \in BOOLEAN
    /\ teardowns \in [Wrappers -> 0..MaxTeardowns]

----------------------------------------------------------------------------
(* Properties *)

IsDecoderRelease(op) == op \in {"DecPut", "DecClose", "StreamClose"}

\* C1, as stated: whatever callers do with acquire and release, no wrapper
\* is ever held by two callers at once.
C1_ExclusiveAlways == \A w \in Wrappers : holders[w] <= 1

\* C1, amended: as long as no caller releases or uses a wrapper it has
\* already released, no wrapper is held by two callers at once; and every
\* acquire hands out either an idle entry, which it takes out of the pool, or
\* a wrapper New has just built.
C1_ExclusiveIfReleasedOnce ==
    /\ [](~misused => \A w \in Wrappers : holders[w] <= 1)
    /\ [][\A w \in Wrappers :
            holders'[w] > holders[w] =>
               \/ handle[w] = "none"
               \/ idle[Pool][w] > 0 /\ idle'[Pool][w] = idle[Pool][w] - 1]_vars

\* C1: two callers hold two distinct wrappers, the pool having had no idle
\* entry for the second of them.
C1_Witness ==
    /\ ~misused
    /\ last.op \in {"DecGet", "EncGet"}
    /\ \E v, w \in Wrappers : v # w /\ holders[v] = 1 /\ holders[w] = 1
    /\ \A w \in Wrappers : idle[Pool][w] = 0

\* C2: DecoderPoolWrapper.Put and DecoderWrapper.Close reset the source to
\* nil and put the wrapper into the pool exactly when the reset succeeds; on
\* a failed reset the pool and the wrapper are left as they were and the call
\* returns normally.
C2_ReleaseGatedOnReset ==
    [][\A w \in Wrappers :
          (last'.op \in {"DecPut", "DecClose"} /\ last'.w = w) =>
             /\ handle[w] = "open" =>
                   /\ target'[w] = Nil
                   /\ idle' = [idle EXCEPT ![Pool][w] = @ + 1]
             /\ handle[w] = "closed" =>
                   /\ idle' = idle
                   /\ target' = target
                   /\ last'.res = "ok"
             /\ idle' # idle => handle[w] = "open"]_vars

\* C2: a release of a decoder whose reset failed: it returned normally and
\* the wrapper is not in the pool.
C2_Witness ==
    /\ last.op \in {"DecPut", "DecClose"}
    /\ last.res = "ok"
    /\ handle[last.w] = "closed"
    /\ idle[Pool][last.w] = 0

C4_NoStaleSourceAlways ==
    poolKind = "dec" =>
        \A w \in Wrappers : idle[Pool][w] > 0 => target[w] = Nil

\* C4, amended: as long as wrappers are released through
\* DecoderPoolWrapper.Put, DecoderWrapper.Close or the adapter's Close (not
\* through sync.Pool.Put itself) and are not used after their release, a
\* decoder wrapper idle in the pool has an empty source.
C4_NoStaleSource ==
    (poolKind = "dec" /\ ~rawPut /\ ~misused) =>
        \A w \in Wrappers : idle[Pool][w] > 0 => target[w] = Nil

\* C4: a decoder has just been released and is idle, its source empty.
C4_Witness ==
    /\ poolKind = "dec" /\ ~rawPut /\ ~misused
    /\ IsDecoderRelease(last.op)
    /\ idle[Pool][last.w] = 1
    /\ target[last.w] = Nil

\* C5: DecoderPoolWrapper.Get panics, and never returns an error, exactly
\* when the reset of the wrapper it got fails, that is when the handle is
\* closed; and unless a caller has closed a decoder's handle itself, Get never
\* panics with a reset error.
C5_GetFaultsOnlyAfterBypass ==
    last.op = "DecGet" =>
        /\ last.res # "err"
        /\ last.res = "panic" <=> handle[last.w] = "closed"
        /\ ~bypassed => last.res # "panic"

\* C5: a Get that panicked on a closed handle.
C5_Witness ==
    /\ last.op = "DecGet"
    /\ last.res = "panic"
    /\ handle[last.w] = "closed"

\* C6: under a garbage collector that eventually processes unreachable
\* wrappers, every wrapper, encoder or decoder, that is unreachable with its
\* handle not yet closed eventually has its finalizer run and its handle
\* closed.
C6_EventuallyClosed ==
    \A w \in Wrappers :
        (handle[w] = "open" /\ finalizer[w] = "armed" /\ ~Reachable(w))
            ~> (finalizer[w] = "fired" /\ handle[w] = "closed")

\* C6: a finalizer has run and closed the handle of its wrapper.
C6_Witness ==
    /\ last.op = "Finalize"
    /\ finalizer[last.w] = "fired"
    /\ handle[last.w] = "closed"
    /\ ~bypassed

\* C7: the adapter's Close on a wrapper that has a handle returns nil
\* whether the reset succeeds or fails, never changes the handle (it does not
\* close it), and does what the release path does: source reset and wrapper
\* pooled on success, nothing on failure.
C7_StreamCloseSucceeds ==
    [][\A w \in Wrappers :
          (last'.op = "StreamClose" /\ last'.w = w /\ handle[w] # "absent") =>
             /\ last'.res = "ok"
             /\ handle'[w] = handle[w]
             /\ handle[w] = "open" =>
                   /\ target'[w] = Nil
                   /\ idle' = [idle EXCEPT ![pool[w]][w] = @ + 1]
             /\ handle[w] = "closed" => idle' = idle]_vars

\* C7: the adapter's Close returned nil although the reset failed; the
\* wrapper was not pooled.
C7_Witness ==
    /\ last.op = "StreamClose"
    /\ last.res = "ok"
    /\ handle[last.w] = "closed"
    /\ idle[Pool][last.w] = 0

\* C8: a wrapper a facade's Get returns is bound to the target given to
\* that Get, whatever it was bound to before.
C8_GetRebinds ==
    (last.op \in {"DecGet", "EncGet"} /\ last.res = "ok") =>
        target[last.w] = last.arg

\* C8: a wrapper that has been released before is acquired again with "Y".
C8_Witness ==
    /\ last.op \in {"DecGet", "EncGet"}
    /\ last.res = "ok"
    /\ last.arg = "Y"
    /\ stale[last.w]
    /\ target[last.w] = "Y"

\* C9: a decoder release whose reset succeeds leaves the wrapper idle in
\* the pool; and, unless a caller has closed a decoder's handle itself, a Get
\* that is handed an idle wrapper with a handle succeeds, binds it to the new
\* source and gives it to the caller.
C9_ReleaseThenAcquire ==
    [][\A w \in Wrappers :
          /\ (IsDecoderRelease(last'.op) /\ last'.w = w /\ handle[w] = "open") =>
                /\ idle'[Pool][w] > 0
                /\ handle'[w] = "open"
          /\ (last'.op = "DecGet" /\ last'.w = w /\ idle[Pool][w] > 0
                /\ handle[w] # "absent" /\ ~bypassed) =>
                /\ last'.res = "ok"
                /\ target'[w] = last'.arg
                /\ holders'[w] = holders[w] + 1]_vars

\* C9: a decoder that was released earlier has been acquired again, by a
\* single caller.
C9_Witness ==
    /\ last.op = "DecGet" /\ last.res = "ok"
    /\ stale[last.w]
    /\ ~bypassed /\ ~rawPut /\ ~misused
    /\ holders[last.w] = 1

\* C10: EncoderPoolWrapper.Put on a wrapper that has a handle resets the
\* sink to nil and puts the wrapper into the pool, always, also when the
\* encoder had been closed.
C10_EncoderPutResetsAndPools ==
    [][\A w \in Wrappers :
          (last'.op = "EncPut" /\ last'.w = w /\ handle[w] # "absent") =>
             /\ last'.res = "ok"
             /\ target'[w] = Nil
             /\ idle' = [idle EXCEPT ![Pool][w] = @ + 1]]_vars

\* C10: an encoder has just been put back: it is idle with an empty sink.
C10_Witness ==
    /\ last.op = "EncPut" /\ last.res = "ok"
    /\ idle[Pool][last.w] = 1
    /\ target[last.w] = Nil
    /\ handle[last.w] = "open"

\* C11, as stated: the finalizer of a decoder wrapper takes the release
\* path: it leaves the handle open, resets the source to nil and puts the
\* wrapper into its owning pool.
C11_FinalizerReleases ==
    (poolKind = "dec" /\ ~bypassed /\ last.op = "Finalize" /\ last.res = "ok") =>
        /\ handle[last.w] = "open"
        /\ target[last.w] = Nil
        /\ idle[pool[last.w]][last.w] > 0

\* C11, amended: the finalizer of a decoder wrapper that has a handle closes
\* the handle, whatever its state; it neither resets the source nor puts the
\* wrapper into any pool.
C11_FinalizerCloses ==
    [][\A w \in Wrappers :
          (poolKind = "dec" /\ last'.op = "Finalize" /\ last'.w = w
             /\ handle[w] # "absent") =>
             /\ handle'[w] = "closed"
             /\ target' = target
             /\ idle' = idle]_vars

\* C11: the finalizer of a decoder that was open and still bound to a source
\* has run: the handle is closed, the source is still bound, the pool is
\* empty.
C11_Witness ==
    /\ poolKind = "dec" /\ ~bypassed
    /\ last.op = "Finalize" /\ last.res = "ok"
    /\ handle[last.w] = "closed"
    /\ target[last.w] # Nil
    /\ \A w \in Wrappers : idle[Pool][w] = 0

\* C12, as stated: over any sequence of operations no handle, of an encoder
\* or of a decoder, goes from open to closed more than once.
C12_SingleTeardownAlways == \A w \in Wrappers : teardowns[w] <= 1

\* C12, amended: no decoder handle goes from open to closed more than once,
\* and a closed decoder handle stays closed; the finalizer of a wrapper of
\* either kind runs at most once, only on an unreachable wrapper, and calls
\* the handle's Close whatever the handle's state: the handle is closed
\* afterwards, and that is a teardown only if it was open before.
C12_SingleTeardown ==
    /\ [](poolKind = "dec" => \A w \in Wrappers : teardowns[w] <= 1)
    /\ [][\A w \in Wrappers :
            /\ (poolKind = "dec" /\ handle[w] = "closed") => handle'[w] = "closed"
            /\ finalizer[w] = "fired" => finalizer'[w] = "fired"
            /\ (last'.op = "Finalize" /\ last'.w = w) =>
                  /\ finalizer[w] = "armed" /\ finalizer'[w] = "fired"
                  /\ ~Reachable(w)
                  /\ handle[w] # "absent" => handle'[w] = "closed"
                  /\ handle[w] # "open" => teardowns'[w] = teardowns[w]]_vars

\* C12: the finalizer has run on the only wrapper built, a decoder whose
\* handle a caller had closed before: the handle has been torn down once.
C12_Witness ==
    /\ poolKind = "dec" /\ bypassed
    /\ last.op = "Finalize" /\ last.res = "ok"
    /\ finalizer[last.w] = "fired"
    /\ handle[last.w] = "closed"
    /\ teardowns[last.w] = 1
    /\ \A v \in Wrappers : v # last.w => handle[v] = "none"

\* C13: with two decoder pools, every decoder wrapper a pool's New has built
\* refers back to that pool; the back-reference never changes; and
\* DecoderWrapper.Close, also through the adapter, changes no pool but that
\* one, into which it puts the wrapper when the reset succeeds.
C13_OwningPool ==
    /\ [](\A w \in Wrappers : handle[w] # "none" =>
              pool[w] = builtBy[w] /\ pool[w] \in pools)
    /\ [][\A w \in Wrappers :
            /\ handle[w] # "none" => pool'[w] = pool[w]
            /\ (last'.op \in {"DecClose", "StreamClose"} /\ last'.w = w) =>
                  /\ \A p \in Pools : p # builtBy[w] => idle'[p] = idle[p]
                  /\ handle[w] = "open" =>
                        idle'[builtBy[w]][w] = idle[builtBy[w]][w] + 1]_vars

\* C13: a wrapper the second pool built was taken out of the facade's pool,
\* where a raw Put had placed it, and its Close has put it back into the
\* second pool; the facade's pool holds only the wrapper it built itself.
C13_Witness ==
    /\ last.op \in {"DecClose", "StreamClose"} /\ last.res = "ok"
    /\ builtBy[last.w] = OtherPool
    /\ idle[OtherPool][last.w] = 1
    /\ idle[Pool][last.w] = 0
    /\ rawPut
    /\ \E v \in Wrappers : builtBy[v] = Pool /\ idle[Pool][v] = 1

\* C14: every step in which a pool's New builds a wrapper leaves a wrapper
\* with its finalizer set, whose handle is absent exactly when zstd rejects
\* the options; and sync.Pool.Get itself, the call that runs New, hands that
\* wrapper to its caller also then, without any fault.
C14_ConstructionFailureSwallowed ==
    [][\A w \in Wrappers :
          (handle[w] = "none" /\ handle'[w] # "none") =>
             /\ handle'[w] = (IF optsOk THEN "open" ELSE "absent")
             /\ finalizer'[w] = "armed"
             /\ builtBy'[w] \in pools
             /\ last'.op \notin {"DecGet", "EncGet"} =>
                   /\ holders'[w] = 1
                   /\ last'.res # "nilderef"]_vars

\* C14: zstd rejects the options, and a caller holds a wrapper that
\* sync.Pool.Get has returned: its handle is absent, its finalizer set.
C14_Witness ==
    /\ ~optsOk
    /\ \E w \in Wrappers :
          /\ handle[w] = "absent"
          /\ finalizer[w] = "armed"
          /\ holders[w] = 1

\* C15: as long as no caller releases a wrapper it has already released, or
\* uses it after the release, every wrapper has at most one entry in the pool
\* and no wrapper is in the pool while a caller holds it.
C15_IdleOnceAndNotHeld ==
    ~misused =>
        \A w \in Wrappers :
            /\ idle[Pool][w] <= 1
            /\ ~(idle[Pool][w] > 0 /\ holders[w] > 0)

\* C15: a decoder has just been released, once, by the caller that held it:
\* it has one entry in the pool and no holder, while another wrapper is held.
C15_Witness ==
    /\ ~misused
    /\ IsDecoderRelease(last.op)
    /\ idle[Pool][last.w] = 1
    /\ holders[last.w] = 0
    /\ \E v \in Wrappers : v # last.w /\ holders[v] = 1 /\ idle[Pool][v] = 0

\* C16: every wrapper that a caller holds or that is idle in a pool has its
\* finalizer set and not yet run; a wrapper whose finalizer has run is in no
\* pool and in no caller's hands.
C16_BackstopArmed ==
    \A w \in Wrappers :
        /\ (holders[w] > 0 \/ \E p \in Pools : idle[p][w] > 0) =>
              finalizer[w] = "armed"
        /\ finalizer[w] = "fired" =>
              (holders[w] = 0 /\ \A p \in Pools : idle[p][w] = 0)

\* C16: after the finalizer of one wrapper has run, a Get has handed out
\* another wrapper, whose finalizer is set.
C16_Witness ==
    /\ last.op \in {"DecGet", "EncGet"} /\ last.res = "ok"
    /\ holders[last.w] = 1
    /\ finalizer[last.w] = "armed"
    /\ \E v \in Wrappers : v # last.w /\ finalizer[v] = "fired"

====
